---- MODULE Spec2Model ----
(***************************************************************************)
(* LazyZipOverHTTP (src/lazyzip.py): a seekable read-only stream over a    *)
(* remote ZIP file.  Fetched byte ranges are mirrored into a temporary     *)
(* file; _left/_right record which closed byte intervals are mirrored.     *)
(*                                                                         *)
(* Three specifications are given over the same variables:                 *)
(*   Spec         a whole session: __aenter__ (HEAD negotiation, the       *)
(*                _check_zip probing loop with the ZipFile parser calling  *)
(*                back into seek/read), then the caller's seek/read.       *)
(*   SpecReserve  the interval tracker alone: arbitrary _download(start,   *)
(*                end) calls (bisect lookup + _merge + ranged fetches) and *)
(*                seeks on a mirror of fixed size, no fetch failing.       *)
(*   SpecFaulty   the same tracker over a network whose fetches may fail.  *)
(*                                                                         *)
(* The ZipFile parser is outside the repository: an attempt is any         *)
(* sequence of seeks and reads on the stream, and it succeeds exactly when *)
(* the object is an archive whose directory bytes are in the mirror.       *)
(***************************************************************************)
EXTENDS Integers, Sequences, FiniteSets

VARIABLES
    state,       \* "Unopened", "Probing", "Parsing", "Ready", "Failed", "Closed"
    head,        \* the response to the HEAD request, NoHead before it is made
    chunk_size,  \* self.chunk_size
    _length,     \* self._length (also the size the mirror is truncated to)
    _left,       \* self._left: starts of the recorded intervals
    _right,      \* self._right: ends of the recorded intervals
    pos,         \* self._file.tell(): the stream cursor
    written,     \* offsets of the mirror that hold bytes written by a fetch
    probe,       \* starts the for loop of _check_zip has still to visit
    stayPos,     \* position saved by the _stay() around ZipFile(self)
    dirStart,    \* the archive's directory occupies [dirStart, _length-1]
    valid,       \* whether the remote object is a well-formed archive
    err,         \* the exception that ended the last operation, or "none"
    nFetch,      \* ranged GET requests issued so far (0, 1, 2, 3 = more)
    fetchCount,  \* per offset: requests by tracker calls for it (0, 1, 2 = more)
    parses,      \* number of ZipFile(self) attempts made by _check_zip
    parserWide,  \* the parser read outside the last chunk_size bytes
    requested,   \* offsets named by the fault-free tracker calls so far
    failedSeen,  \* some ranged fetch failed so far
    lastCall,    \* <<start, end, gaps>> of the last fault-free tracker call
    closed,      \* self._file.closed: the mirror file is closed
    fetched      \* offsets written by ranged fetches that ran to their end

vars == <<state, head, chunk_size, _length, _left, _right, pos, written, probe,
          stayPos, dirStart, valid, err, nFetch, fetchCount, parses,
          parserWide, requested, failedSeen, lastCall, closed, fetched>>

----------------------------------------------------------------------------
(* Bounds of the model. *)

\* Largest Content-Length a session is opened on.
MaxLength == 5

\* Largest chunk_size a stream is constructed with.
MaxChunk == 3

\* Largest size argument of read(size); size -1 is always tried as well.
MaxRead == MaxChunk + 1

\* The tracker specifications reserve ranges of the offsets 0..MaxByte.
MaxByte == MaxLength - 1

----------------------------------------------------------------------------
(* Python helpers. *)

Min(a, b) == IF a <= b THEN a ELSE b

Max(a, b) == IF a >= b THEN a ELSE b

\* s[lo:hi] on a list (0-based, hi exclusive, empty when lo >= hi).
PySlice(s, lo, hi) ==
    IF lo >= hi THEN <<>> ELSE SubSeq(s, lo + 1, Min(hi, Len(s)))

\* Mutant: the assignment replaces the whole list.
PySliceAssignAll(s, lo, hi, v) == v

\* s[lo:hi] = v on a list: when lo >= hi, v is inserted at lo.
PySliceAssign(s, lo, hi, v) ==
    SubSeq(s, 1, Min(lo, Len(s))) \o v \o SubSeq(s, Max(lo, hi) + 1, Len(s))

\* bisect.bisect_left(a, x): binary search, leftmost insertion point.
RECURSIVE BisectLeftLoop(_, _, _, _)
BisectLeftLoop(a, x, lo, hi) ==
    IF lo >= hi THEN lo
    ELSE LET mid == (lo + hi) \div 2
         IN  IF a[mid + 1] < x THEN BisectLeftLoop(a, x, mid + 1, hi)
                               ELSE BisectLeftLoop(a, x, lo, mid)

\* Mutant: the lookup also takes an interval ending at x - 1 (adjacent).
bisect_left_adjacent(a, x) == BisectLeftLoop(a, x - 1, 0, Len(a))

bisect_left(a, x) == BisectLeftLoop(a, x, 0, Len(a))

\* bisect.bisect_right(a, x): binary search, rightmost insertion point.
RECURSIVE BisectRightLoop(_, _, _, _)
BisectRightLoop(a, x, lo, hi) ==
    IF lo >= hi THEN lo
    ELSE LET mid == (lo + hi) \div 2
         IN  IF x < a[mid + 1] THEN BisectRightLoop(a, x, lo, mid)
                               ELSE BisectRightLoop(a, x, mid + 1, hi)

\* Mutant: bisect_left used where bisect_right is meant.
bisect_right_as_left(a, x) == BisectLeftLoop(a, x, 0, Len(a))

bisect_right(a, x) == BisectRightLoop(a, x, 0, Len(a))

\* The offsets of the closed range [a, b].
Range(a, b) == {x \in a..b : TRUE}

\* The offsets covered by the recorded intervals l[i]..r[i].
Covered(l, r) == UNION {Range(l[i], r[i]) : i \in 1..Len(l)}

\* The offsets named by a list of gaps.
GapBytes(gaps) == UNION {Range(gaps[i][1], gaps[i][2]) : i \in 1..Len(gaps)}

----------------------------------------------------------------------------
(* The interval tracker and the range fetcher. *)

\* min([start] + lslice[:1])
MergeStart(start, lslice) ==
    IF lslice = <<>> THEN start ELSE Min(start, Head(lslice))

\* Mutant: the merged interval ends at the request's end.
MergeEndNoExtend(end, rslice) == end

\* max([end] + rslice[-1:])
MergeEnd(end, rslice) ==
    IF rslice = <<>> THEN end ELSE Max(end, rslice[Len(rslice)])

\* Mutant: the loop tests j >= i.
RECURSIVE WalkGapsWeak(_, _, _)
WalkGapsWeak(lslice, rslice, i) ==
    IF lslice = <<>> \/ rslice = <<>> THEN [gaps |-> <<>>, i |-> i]
    ELSE LET j == Head(lslice)
             k == Head(rslice)
             rest == WalkGapsWeak(Tail(lslice), Tail(rslice), k + 1)
         IN  [gaps |-> (IF j >= i THEN << <<i, j - 1>> >> ELSE <<>>) \o rest.gaps,
              i |-> rest.i]

\* The for loop of _merge over zip(lslice, rslice), entered with i: the gaps
\* it yields and the value of i it ends with.
RECURSIVE WalkGaps(_, _, _)
WalkGaps(lslice, rslice, i) ==
    IF lslice = <<>> \/ rslice = <<>> THEN [gaps |-> <<>>, i |-> i]
    ELSE LET j == Head(lslice)
             k == Head(rslice)
             rest == WalkGaps(Tail(lslice), Tail(rslice), k + 1)
         IN  [gaps |-> (IF j > i THEN << <<i, j - 1>> >> ELSE <<>>) \o rest.gaps,
              i |-> rest.i]

\* Mutant: no trailing gap is yielded.
TrailingGapNone(i, end) == <<>>

\* Mutant: the trailing gap is yielded only when i < end.
TrailingGapStrict(i, end) == IF i < end THEN << <<i, end>> >> ELSE <<>>

\* The end of _merge: if i <= end: yield i, end.
TrailingGap(i, end) == IF i <= end THEN << <<i, end>> >> ELSE <<>>

\* _merge(start, end, left, right) on the lists l, r: the gaps the generator
\* yields, and the lists it leaves once it has been run to its end.
_merge(l, r, start, end, li, ri) ==
    LET lslice == PySlice(l, li, ri)
        rslice == PySlice(r, li, ri)
        s0 == MergeStart(start, lslice)
        e0 == MergeEnd(end, rslice)
        walk == WalkGaps(lslice, rslice, s0)
        last == TrailingGap(walk.i, e0)
    IN  [gaps |-> walk.gaps \o last,
         left |-> PySliceAssign(l, li, ri, <<s0>>),
         right |-> PySliceAssign(r, li, ri, <<e0>>)]

\* How the fetches of one _download call can go: <<f, w>> where the first f
\* gaps are fetched in full; f = Len(gaps) is the call in which no fetch
\* fails.  Otherwise the fetch of gap f+1 fails: with w = -1 before anything
\* is written (the request or raise_for_status raises), with w >= 0 after
\* seek(start) and w bytes of the body were written (the stream breaks).
FetchOutcomes(gaps) ==
    {<<Len(gaps), -1>>} \cup
    UNION {{<<f, w>> : w \in -1..(gaps[f + 1][2] - gaps[f + 1][1])} :
             f \in 0..(Len(gaps) - 1)}

\* The body of the for loop of _download run over the gaps: where the
\* cursor is and what the mirror holds when the loop is left.
FetchLoop(p, wr, gaps, f, w) ==
    LET ok == f = Len(gaps)
        after == IF f = 0 THEN p ELSE gaps[f][2] + 1
        g == IF ok THEN <<0, 0>> ELSE gaps[f + 1]
    IN  [ok |-> ok,
         issued |-> IF ok THEN f ELSE f + 1,
         pos |-> IF ok \/ w < 0 THEN after ELSE g[1] + w,
         written |-> wr \cup GapBytes(SubSeq(gaps, 1, f))
                        \cup (IF ok THEN {} ELSE Range(g[1], g[1] + w - 1))]

\* Mutant: the position is not restored at the end of the block.
_stay_no_seek(saved, cur, ok) == cur

\* Mutant: the position is restored only when the block ends normally.
_stay_no_finally(saved, cur, ok) == IF ok THEN saved ELSE cur

\* _stay(): the cursor after a with self._stay() block that was entered at
\* saved and left (normally, ok, or by an exception) with the cursor at cur.
_stay(saved, cur, ok) == saved

\* Mutant: _merge assigns the slice before the gaps are fetched.
_download_eager(l, r, p, wr, start, end, f, w) ==
    LET li == bisect_left(r, start)
        ri == bisect_right(l, end)
        m == _merge(l, r, start, end, li, ri)
        loop == FetchLoop(p, wr, m.gaps, f, w)
    IN  [ok |-> loop.ok,
         gaps |-> m.gaps,
         issued |-> loop.issued,
         left |-> m.left,
         right |-> m.right,
         pos |-> _stay(p, loop.pos, loop.ok),
         written |-> loop.written]

\* _download(start, end) on a stream with lists l, r, cursor p and mirror wr,
\* its fetches going as <<f, w>> says.
_download(l, r, p, wr, start, end, f, w) ==
    LET li == bisect_left(r, start)
        ri == bisect_right(l, end)
        m == _merge(l, r, start, end, li, ri)
        loop == FetchLoop(p, wr, m.gaps, f, w)
    IN  [ok |-> loop.ok,
         gaps |-> m.gaps,
         issued |-> loop.issued,
         left |-> IF loop.ok THEN m.left ELSE l,
         right |-> IF loop.ok THEN m.right ELSE r,
         pos |-> _stay(p, loop.pos, loop.ok),
         written |-> loop.written]

\* The gaps of a _download(start, end) call on the lists l, r.
DownloadGaps(l, r, start, end) ==
    _merge(l, r, start, end, bisect_left(r, start), bisect_right(l, end)).gaps

\* The request counts once the first n of the gaps have been requested.
CountFetches(fc, gaps, n) ==
    [b \in DOMAIN fc |->
        IF b \in GapBytes(SubSeq(gaps, 1, n)) THEN Min(fc[b] + 1, 2) ELSE fc[b]]

\* The offsets written by the fetches of a _download call d that ran to
\* their end: the gaps before the failing one, or all of them.
Completed(d) ==
    GapBytes(SubSeq(d.gaps, 1, IF d.ok THEN d.issued ELSE d.issued - 1))

----------------------------------------------------------------------------
(* The stream surface. *)

\* seek(offset, whence) of the mirror file: the new position, or -1 when the
\* file refuses it (a negative absolute position).
SeekTarget(p, size, offset, whence) ==
    LET t == CASE whence = 0 -> offset
               [] whence = 1 -> p + offset
               [] OTHER -> size + offset
    IN  IF t < 0 THEN -1 ELSE t

\* seek(offset, whence), by the caller of an open stream or by the parser
\* during an attempt; positions up to MaxLength + 1 are visited.
Seek(offset, whence) ==
    /\ state \in {"Ready", "Parsing"}
    /\ SeekTarget(pos, _length, offset, whence) \in 0..(MaxLength + 1)
    /\ pos' = SeekTarget(pos, _length, offset, whence)
    /\ UNCHANGED <<state, head, chunk_size, _length, _left, _right, written,
                   probe, stayPos, dirStart, valid, err, nFetch, fetchCount, parses,
                   parserWide, requested, failedSeen, lastCall, closed, fetched>>

\* Mutant: the window is not cut at the end of the object.
ReadWindowUncut(p, size, length, chunk) ==
    LET download_size == Max(size, chunk)
        stop == IF size < 0 THEN length ELSE p + download_size
        start == Max(0, stop - download_size)
    IN  <<start, stop - 1>>

\* read(size): the closed range passed to _download.
ReadWindow(p, size, length, chunk) ==
    LET download_size == Max(size, chunk)
        stop == IF size < 0 THEN length ELSE Min(p + download_size, length)
        start == Max(0, stop - download_size)
    IN  <<start, stop - 1>>

\* self._file.read(size) on a mirror of the given length: the offsets whose
\* bytes are returned.
FileRead(p, size, length) ==
    IF size < 0 THEN Range(p, length - 1)
    ELSE Range(p, Min(p + size, length) - 1)

\* The cursor after self._file.read(size).
FileReadPos(p, size, length) ==
    IF FileRead(p, size, length) = {} THEN p
    ELSE IF size < 0 THEN length ELSE Min(p + size, length)

\* Saturating count of issued requests.
CountRequests(n, issued) == Min(n + issued, 3)

\* read(size) whose fetches go as o says: the tracker, the mirror and the
\* counts after it; the cursor and what is returned when it does not raise.
ReadStep(size, o) ==
    LET win == ReadWindow(pos, size, _length, chunk_size)
        d == _download(_left, _right, pos, written, win[1], win[2], o[1], o[2])
    IN  /\ _left' = d.left
        /\ _right' = d.right
        /\ written' = d.written
        /\ fetched' = fetched \cup Completed(d)
        /\ failedSeen' = (failedSeen \/ ~d.ok)
        /\ nFetch' = CountRequests(nFetch, d.issued)
        /\ err' = IF d.ok THEN "none" ELSE "Transport"
        /\ pos' = IF d.ok THEN FileReadPos(d.pos, size, _length)
                  ELSE IF state = "Parsing" THEN _stay(stayPos, d.pos, FALSE)
                  ELSE d.pos
        /\ state' = IF ~d.ok /\ state = "Parsing" THEN "Failed" ELSE state

\* The outcomes of the fetches of read(size) at the current position.
ReadOutcomes(size) ==
    LET win == ReadWindow(pos, size, _length, chunk_size)
    IN  FetchOutcomes(DownloadGaps(_left, _right, win[1], win[2]))

\* read(size) by the caller of an open stream.  A failed fetch raises to
\* the caller and leaves the stream open.
Read(size) ==
    /\ state = "Ready"
    /\ Len(_left) <= MaxLength
    /\ \E o \in ReadOutcomes(size) : ReadStep(size, o)
    /\ UNCHANGED <<head, chunk_size, _length, probe, stayPos, dirStart, valid,
                   fetchCount, parses, parserWide, requested, lastCall, closed>>

----------------------------------------------------------------------------
(* __aenter__: negotiation and the probing loop of _check_zip. *)

\* range(start, stop, step) as a list.
RECURSIVE PyRange(_, _, _)
PyRange(start, stop, step) ==
    IF start >= stop THEN <<>> ELSE <<start>> \o PyRange(start + step, stop, step)

\* Mutant: the list is walked in its own order.
ReversedNot(s) == s

\* reversed(s) as a list.
RECURSIVE Reversed(_)
Reversed(s) == IF s = <<>> THEN <<>> ELSE Reversed(Tail(s)) \o <<Head(s)>>

\* Mutant: the probing loop walks forward from the start of the object.
ProbeStartsForward(length, chunk) == PyRange(0, length - 1, chunk)

\* The values of start the for loop of _check_zip visits, in order.
ProbeStarts(length, chunk) == Reversed(PyRange(0, length - 1, chunk))

\* Responses to the HEAD request: the status ("200", another success
\* status, or an error status), the Content-Length header (-1 when the
\* header is missing) and whether Accept-Ranges names bytes.
HeadResponses ==
    [status : {"200", "2xx", "error"}, length : -1..MaxLength, ranges : BOOLEAN]

\* No response yet.
NoHead == [status |-> "none", length |-> -1, ranges |-> FALSE]

\* Mutant: the Accept-Ranges header is not looked at.
HeadErrorNoRanges(h) ==
    CASE h.status = "error" -> "HTTPStatus"
      [] h.status = "2xx" -> "Assertion"
      [] h.length < 0 -> "KeyError"
      [] OTHER -> "none"

\* The exception lines 124-131 of __aenter__ raise on the response h, or
\* "none".
HeadError(h) ==
    CASE h.status = "error" -> "HTTPStatus"
      [] h.status = "2xx" -> "Assertion"
      [] h.length < 0 -> "KeyError"
      [] ~h.ranges -> "RangeUnsupported"
      [] OTHER -> "none"

\* Whether lines 127-128 of __aenter__ are reached on the response h.
LengthTaken(h) == h.status = "200" /\ h.length >= 0

\* The archives a remote object of the given length can be: not a ZIP, or
\* a ZIP whose directory is the bytes [d, length - 1].
Archives(length) ==
    {<<FALSE, 0>>} \cup {<<TRUE, d>> : d \in 0..(length - 1)}

\* __aenter__ up to the call of _check_zip.
Negotiate ==
    /\ state = "Unopened"
    /\ \E h \in HeadResponses, a \in Archives(MaxLength) :
         /\ head' = h
         /\ _length' = IF LengthTaken(h) THEN h.length ELSE _length
         /\ err' = HeadError(h)
         /\ IF HeadError(h) = "none"
            THEN /\ a \in Archives(h.length)
                 /\ state' = "Probing"
                 /\ probe' = ProbeStarts(h.length, chunk_size)
                 /\ valid' = a[1]
                 /\ dirStart' = a[2]
            ELSE /\ a = <<FALSE, 0>>
                 /\ state' = "Failed"
                 /\ UNCHANGED <<probe, valid, dirStart>>
    /\ UNCHANGED <<chunk_size, _left, _right, pos, written, stayPos, nFetch,
                   fetchCount, parses, parserWide, requested, failedSeen, lastCall, closed, fetched>>

\* One iteration of the for loop of _check_zip up to ZipFile(self):
\* _download(start, end), then _stay() saves the position.  A failed fetch
\* ends __aenter__ with the transport error.
ProbeStep ==
    /\ state = "Probing"
    /\ probe # <<>>
    /\ \E o \in FetchOutcomes(DownloadGaps(_left, _right, Head(probe),
                                           _length - 1)) :
         LET d == _download(_left, _right, pos, written, Head(probe),
                            _length - 1, o[1], o[2])
         IN  /\ _left' = d.left
             /\ _right' = d.right
             /\ pos' = d.pos
             /\ written' = d.written
             /\ fetched' = fetched \cup Completed(d)
             /\ failedSeen' = (failedSeen \/ ~d.ok)
             /\ nFetch' = CountRequests(nFetch, d.issued)
             /\ err' = IF d.ok THEN "none" ELSE "Transport"
             /\ state' = IF d.ok THEN "Parsing" ELSE "Failed"
             /\ stayPos' = IF d.ok THEN d.pos ELSE stayPos
             /\ parses' = IF d.ok THEN Min(parses + 1, 2) ELSE parses
    /\ UNCHANGED <<head, chunk_size, _length, probe, dirStart, valid,
                   fetchCount, parserWide, requested, lastCall, closed>>

\* The for loop of _check_zip has no start left: _check_zip returns and
\* __aenter__ returns the stream.
ProbeExhausted ==
    /\ state = "Probing"
    /\ probe = <<>>
    /\ state' = "Ready"
    /\ UNCHANGED <<head, chunk_size, _length, _left, _right, pos, written,
                   probe, stayPos, dirStart, valid, err, nFetch, fetchCount,
                   parses, parserWide, requested, failedSeen,
                   lastCall, closed, fetched>>

\* The parser has the directory at hand: the object is an archive and the
\* bytes of its directory are in the mirror.
DirectoryMirrored ==
    valid /\ Range(dirStart, _length - 1) \subseteq written

\* read(size) by the parser during ZipFile(self).  A failed fetch is no
\* BadZipFile: it leaves the _stay() block and ends __aenter__.
ParserRead(size) ==
    /\ state = "Parsing"
    /\ \E o \in ReadOutcomes(size) : ReadStep(size, o)
    /\ parserWide' = (parserWide \/ size > chunk_size
                                 \/ pos < _length - chunk_size)
    /\ UNCHANGED <<head, chunk_size, _length, probe, stayPos, dirStart, valid,
                   fetchCount, parses, requested, lastCall, closed>>

\* ZipFile(self) returns: the else branch breaks out of the loop, _stay()
\* seeks back, __aenter__ returns the stream.
ParseOk ==
    /\ state = "Parsing"
    /\ DirectoryMirrored
    /\ pos' = _stay(stayPos, pos, TRUE)
    /\ state' = "Ready"
    /\ UNCHANGED <<head, chunk_size, _length, _left, _right, written, probe,
                   stayPos, dirStart, valid, err, nFetch, fetchCount, parses,
                   parserWide, requested, failedSeen, lastCall, closed, fetched>>

\* ZipFile(self) raises BadZipFile: it is swallowed, _stay() seeks back and
\* the loop goes on with the next start.
ParseBad ==
    /\ state = "Parsing"
    /\ ~DirectoryMirrored
    /\ pos' = _stay(stayPos, pos, FALSE)
    /\ probe' = Tail(probe)
    /\ state' = "Probing"
    /\ UNCHANGED <<head, chunk_size, _length, _left, _right, written, stayPos,
                   dirStart, valid, err, nFetch, fetchCount, parses,
                   parserWide, requested, failedSeen, lastCall, closed, fetched>>

\* __aexit__: the async with block of an opened stream is left, and the
\* mirror file is closed by self._file.__exit__.
__aexit__ ==
    /\ state = "Ready"
    /\ closed' = TRUE
    /\ state' = "Closed"
    /\ UNCHANGED <<head, chunk_size, _length, _left, _right, pos, written,
                   probe, stayPos, dirStart, valid, err, nFetch, fetchCount,
                   parses, parserWide, requested, failedSeen, lastCall,
                   fetched>>

\* close(), called by the owner of a stream whose __aenter__ has returned
\* or raised.
close ==
    /\ state \in {"Ready", "Failed"}
    /\ ~closed
    /\ closed' = TRUE
    /\ state' = IF state = "Ready" THEN "Closed" ELSE state
    /\ UNCHANGED <<head, chunk_size, _length, _left, _right, pos, written,
                   probe, stayPos, dirStart, valid, err, nFetch, fetchCount,
                   parses, parserWide, requested, failedSeen, lastCall,
                   fetched>>

Init ==
    /\ state = "Unopened"
    /\ head = NoHead
    /\ chunk_size \in 1..MaxChunk
    /\ _length = 0
    /\ _left = <<>>
    /\ _right = <<>>
    /\ pos = 0
    /\ written = {}
    /\ probe = <<>>
    /\ stayPos = 0
    /\ dirStart = 0
    /\ valid = FALSE
    /\ err = "none"
    /\ nFetch = 0
    /\ fetchCount = [b \in 0..MaxByte |-> 0]
    /\ parses = 0
    /\ parserWide = FALSE
    /\ requested = {}
    /\ failedSeen = FALSE
    /\ lastCall = <<>>
    /\ closed = FALSE
    /\ fetched = {}

Next ==
    \/ Negotiate
    \/ ProbeStep
    \/ ProbeExhausted
    \/ \E size \in -1..MaxRead : ParserRead(size)
    \/ ParseOk
    \/ ParseBad
    \/ \E whence \in 0..2, offset \in -1..(MaxLength + 1) :
         Seek(offset, whence)
    \/ \E size \in -1..MaxRead : Read(size)
    \/ __aexit__
    \/ close

Spec == Init /\ [][Next]_vars

----------------------------------------------------------------------------
(* The tracker alone: arbitrary _download calls and seeks on a mirror of    *)
(* MaxByte + 1 bytes.  SpecReserve is the tracker over a network that       *)
(* never fails; SpecFaulty lets every ranged fetch fail, and keeps no       *)
(* record of requested, fetchCount and fetched.                             *)

InitReserve ==
    /\ state = "Ready"
    /\ head = NoHead
    /\ chunk_size = 1
    /\ _length = MaxByte + 1
    /\ _left = <<>>
    /\ _right = <<>>
    /\ pos = 0
    /\ written = {}
    /\ probe = <<>>
    /\ stayPos = 0
    /\ dirStart = 0
    /\ valid = FALSE
    /\ err = "none"
    /\ nFetch = 0
    /\ fetchCount = [b \in 0..MaxByte |-> 0]
    /\ parses = 0
    /\ parserWide = FALSE
    /\ requested = {}
    /\ failedSeen = FALSE
    /\ lastCall = <<>>
    /\ closed = FALSE
    /\ fetched = {}

\* The effect of one _download(start, end) call whose fetches go as o says.
DownloadStep(start, end, o) ==
    LET d == _download(_left, _right, pos, written, start, end, o[1], o[2])
    IN  /\ _left' = d.left
        /\ _right' = d.right
        /\ pos' = d.pos
        /\ written' = d.written
        /\ err' = IF d.ok THEN "none" ELSE "Transport"
        /\ failedSeen' = (failedSeen \/ ~d.ok)

\* One _download(start, end) call, with 0 <= start <= end, no fetch failing.
Reserve(start, end) ==
    /\ state = "Ready"
    /\ start <= end
    /\ LET gaps == DownloadGaps(_left, _right, start, end)
       IN  /\ DownloadStep(start, end, <<Len(gaps), -1>>)
           /\ fetchCount' = CountFetches(fetchCount, gaps, Len(gaps))
           /\ requested' = requested \cup Range(start, end)
           /\ lastCall' = <<start, end, gaps>>
           /\ fetched' = fetched \cup GapBytes(gaps)
    /\ UNCHANGED <<state, head, chunk_size, _length, probe, stayPos, dirStart,
                   valid, nFetch, parses, parserWide, closed>>

\* One _download(start, end) call, with 0 <= start <= end, over a network
\* that may fail.
ReserveFaulty(start, end) ==
    /\ state = "Ready"
    /\ start <= end
    /\ \E o \in FetchOutcomes(DownloadGaps(_left, _right, start, end)) :
         DownloadStep(start, end, o)
    /\ UNCHANGED <<state, head, chunk_size, _length, probe, stayPos, dirStart,
                   valid, nFetch, fetchCount, parses, parserWide, requested,
                   lastCall, closed, fetched>>

NextReserve ==
    \/ \E start \in 0..MaxByte, end \in 0..MaxByte : Reserve(start, end)
    \/ \E offset \in 0..MaxByte : Seek(offset, 0)

SpecReserve == InitReserve /\ [][NextReserve]_vars

NextFaulty ==
    \/ \E start \in 0..MaxByte, end \in 0..MaxByte : ReserveFaulty(start, end)
    \/ \E offset \in 0..MaxByte : Seek(offset, 0)

SpecFaulty == InitReserve /\ [][NextFaulty]_vars

----------------------------------------------------------------------------
(* Properties of the tracker. *)

\* The recorded intervals, as a set of pairs.
IntervalSet(l, r) == {<<l[i], r[i]>> : i \in 1..Len(l)}

\* The maximal runs of offsets of [a, b] that are not in S, as pairs.
Runs(S, a, b) ==
    {<<x, y>> \in (a..b) \X (a..b) :
        /\ x <= y
        /\ \A z \in x..y : z \notin S
        /\ (x = a \/ x - 1 \in S)
        /\ (y = b \/ y + 1 \in S)}

\* The list g holds exactly the runs of [a, b] outside S, in increasing order.
GapsAreRuns(g, S, a, b) ==
    /\ {g[i] : i \in 1..Len(g)} = Runs(S, a, b)
    /\ \A i \in 1..(Len(g) - 1) : g[i][2] < g[i + 1][1]

\* C2: after any sequence of _download calls, failing ones included, _left
\* and _right have equal length, every interval has _left[i] <= _right[i],
\* and each interval ends before the next one starts.
C2_SortedDisjoint ==
    /\ Len(_left) = Len(_right)
    /\ \A i \in 1..Len(_left) : _left[i] <= _right[i]
    /\ \A i \in 1..(Len(_left) - 1) : _right[i] < _left[i + 1]

\* C2 witness: two intervals are recorded and a fetch has failed.
C2_Witness == Len(_left) >= 2 /\ failedSeen

\* C3: as long as no fetch failed, the recorded intervals cover exactly the
\* offsets requested so far.
C3_UnionIsRequested == ~failedSeen => Covered(_left, _right) = requested

\* C3 witness: a call that absorbed two recorded intervals and the gap
\* between them into one.
C3_Witness ==
    /\ lastCall # <<>>
    /\ Len(lastCall[3]) >= 1
    /\ Len(_left) = 1
    /\ Cardinality(requested) >= 4
    /\ lastCall[2] - lastCall[1] + 1 < Cardinality(requested)

\* C4 as claimed: no two recorded intervals are adjacent or overlapping.
C4_NoAdjacent ==
    \A i \in 1..(Len(_left) - 1) : _right[i] + 1 < _left[i + 1]

\* C4 as amended: a request that overlaps no recorded interval is recorded
\* as an interval of its own, also when it is exactly adjacent to a recorded
\* one, and no two recorded intervals overlap.
C4_AdjacentKeptApart ==
    lastCall # <<>> /\ lastCall[3] = << <<lastCall[1], lastCall[2]>> >>
        => /\ <<lastCall[1], lastCall[2]>> \in IntervalSet(_left, _right)
           /\ \A i \in 1..(Len(_left) - 1) : _right[i] < _left[i + 1]

\* C4 witness: the request of the last call was adjacent to a recorded
\* interval, and both are recorded.
C4_Witness ==
    /\ lastCall # <<>>
    /\ lastCall[3] = << <<lastCall[1], lastCall[2]>> >>
    /\ \E i \in 1..Len(_left) :
         _right[i] + 1 = lastCall[1] \/ lastCall[2] + 1 = _left[i]

\* C5: in every reachable tracker state and for every request start <= end,
\* the gaps of _download(start, end) are exactly the maximal runs of offsets
\* of [start, end] outside the recorded intervals, in increasing order; and
\* as long as no fetch failed, no offset was requested from the server twice.
C5_GapsMinimal ==
    /\ \A a \in 0..MaxByte, b \in 0..MaxByte :
         a <= b => GapsAreRuns(DownloadGaps(_left, _right, a, b),
                               Covered(_left, _right), a, b)
    /\ ~failedSeen => \A x \in DOMAIN fetchCount : fetchCount[x] <= 1

\* C5 witness: the last call fetched two gaps around a recorded interval.
C5_Witness ==
    /\ lastCall # <<>>
    /\ Len(lastCall[3]) >= 2
    /\ Len(_left) = 1

\* C9: after a _download(a, b) call that succeeded, the same call again has
\* no gap, issues no request and leaves _left and _right as they are; and on
\* an empty tracker every request has the single gap (a, b).
C9_Idempotent ==
    /\ lastCall # <<>> =>
         LET d == _download(_left, _right, pos, written,
                            lastCall[1], lastCall[2], 0, -1)
         IN  /\ DownloadGaps(_left, _right, lastCall[1], lastCall[2]) = <<>>
             /\ d.ok /\ d.issued = 0
             /\ d.left = _left /\ d.right = _right
    /\ _left = <<>> /\ _right = <<>> =>
         \A a \in 0..MaxByte, b \in 0..MaxByte :
            a <= b => DownloadGaps(_left, _right, a, b) = << <<a, b>> >>

\* C9 witness: the last call had gaps to fetch and merged into an interval
\* wider than the request.
C9_Witness ==
    /\ lastCall # <<>>
    /\ Len(lastCall[3]) >= 1
    /\ \E i \in 1..Len(_left) :
         /\ _left[i] <= lastCall[1] /\ lastCall[2] <= _right[i]
         /\ _right[i] - _left[i] > lastCall[2] - lastCall[1]

\* C10: every _download call leaves the cursor where it was, whether it
\* fetched nothing, fetched all its gaps, or ended in a failed fetch.
C10_CursorKept ==
    [][pos' = pos
          \/ ~(\E a \in 0..MaxByte, b \in 0..MaxByte : ReserveFaulty(a, b))]_vars

\* C10 witness: a call failed after an earlier gap of it was written, with
\* the cursor away from the start of the stream.
C10_Witness ==
    /\ err = "Transport"
    /\ pos > 0
    /\ written \ Covered(_left, _right) # {}

\* C16: a _download(a, b) call leaves every recorded interval that ends
\* before a or starts after b as it is and in its place relative to the
\* others, and replaces the rest by one interval containing [a, b]; it
\* requests no offset outside [a, b]; and when no recorded interval overlaps
\* [a, b], its only gap is (a, b), its only change to the lists is the new
\* interval (a, b), and it requests each offset of [a, b] once.
C16_OnlySliceChanged ==
    [][lastCall' # <<>> /\ pos' = pos /\ Reserve(lastCall'[1], lastCall'[2]) =>
          LET a == lastCall'[1]
              b == lastCall'[2]
              n == Len(_left)
              before == {i \in 1..n : _right[i] < a}
              after == {i \in 1..n : _left[i] > b}
              shift == Len(_left') - n
              new == Cardinality(before) + 1
          IN  /\ Len(_left') = Cardinality(before) + 1 + Cardinality(after)
              /\ Len(_right') = Len(_left')
              /\ \A i \in before :
                    _left'[i] = _left[i] /\ _right'[i] = _right[i]
              /\ \A i \in after :
                    /\ _left'[i + shift] = _left[i]
                    /\ _right'[i + shift] = _right[i]
              /\ _left'[new] <= a /\ b <= _right'[new]
              /\ \A x \in DOMAIN fetchCount :
                    x \notin Range(a, b) => fetchCount'[x] = fetchCount[x]
              /\ before \cup after = 1..n =>
                    /\ lastCall'[3] = << <<a, b>> >>
                    /\ shift = 1
                    /\ _left'[new] = a /\ _right'[new] = b
                    /\ \A x \in Range(a, b) :
                          fetchCount'[x] = Min(fetchCount[x] + 1, 2)]_vars

\* C16 witness: two calls for ranges that are apart have left two intervals,
\* each offset of them requested once and no offset between them requested.
C16_Witness ==
    /\ lastCall # <<>>
    /\ Len(_left) = 2
    /\ _right[1] + 1 < _left[2]
    /\ lastCall[1] = _left[2] /\ lastCall[2] = _right[2]
    /\ lastCall[3] = << <<_left[2], _right[2]>> >>
    /\ requested = Covered(_left, _right)
    /\ \A x \in DOMAIN fetchCount :
          fetchCount[x] = IF x \in requested THEN 1 ELSE 0

\* C17: in every reachable state of the tracker, for every _download(a, b)
\* call and every way one of its fetches can fail (the fetch of gap f + 1,
\* after the first f gaps were fetched), the call ends without success,
\* has issued f + 1 requests (each gap up to the failing one once, none
\* after it), has written nothing into the later gaps, and leaves _left and
\* _right as they were before it.
C17_FailureKeepsIntervals ==
    \A a \in 0..MaxByte : \A b \in a..MaxByte :
       LET gaps == DownloadGaps(_left, _right, a, b)
       IN  \A o \in FetchOutcomes(gaps) :
              o[1] < Len(gaps) =>
                 LET d == _download(_left, _right, pos, written, a, b,
                                    o[1], o[2])
                 IN  /\ ~d.ok
                     /\ d.issued = o[1] + 1
                     /\ d.written \ written
                           \subseteq GapBytes(SubSeq(gaps, 1, o[1] + 1))
                     /\ d.left = _left
                     /\ d.right = _right

\* C17 witness: a call over three recorded intervals has failed on its
\* second gap: the first gap between them is in the mirror, the second is
\* not, and the three intervals are still apart.
C17_Witness ==
    /\ err = "Transport"
    /\ Len(_left) = 3
    /\ _right[1] + 1 < _left[2] /\ _right[2] + 1 < _left[3]
    /\ Range(_right[1] + 1, _left[2] - 1) \subseteq written
    /\ Range(_right[2] + 1, _left[3] - 1) \cap written = {}

----------------------------------------------------------------------------
(* Properties of a session. *)

\* C1: whenever read(size) returns to the parser or to the caller, for
\* every size (negative included) and every cursor position, the offsets
\* whose bytes it returns all lie in recorded intervals.
C1_ReadCovered ==
    [][\A size \in -1..MaxRead :
          (Read(size) \/ ParserRead(size)) /\ err' = "none"
             => FileRead(pos, size, _length) \subseteq Covered(_left', _right')]_vars

\* C6: when parse attempts were made and every one of them failed (the
\* object is no archive), __aenter__ does not return the stream.
C6_NoSilentSuccess == (parses >= 1 /\ ~valid) => state # "Ready"

\* C7: when the HEAD response is a 200 with a Content-Length and without
\* byte-range support, __aenter__ has failed with the unsupported-range
\* error, for every length, and no ranged request was issued, no probe step
\* and no parse attempt made, nothing recorded or written.
C7_NoRangeNoFetch ==
    (head.status = "200" /\ head.length >= 0 /\ ~head.ranges)
        => /\ state = "Failed"
           /\ err = "RangeUnsupported"
           /\ nFetch = 0
           /\ parses = 0
           /\ written = {}
           /\ _left = <<>> /\ _right = <<>>

\* C7 witness: the session of an object of MaxLength bytes has failed for
\* want of range support.
C7_Witness ==
    /\ state = "Failed"
    /\ head.status = "200" /\ head.length = MaxLength /\ ~head.ranges
    /\ _length = MaxLength

\* The directory of the archive lies in the last chunk_size bytes of an
\* object of at least chunk_size bytes, and the parser has read nothing
\* outside them.
TailDirectory ==
    /\ valid
    /\ _length >= chunk_size
    /\ dirStart >= _length - chunk_size
    /\ ~parserWide

\* C8 as claimed: when __aenter__ returns on such an object, exactly one
\* ranged request was issued and the mirror holds exactly the last
\* chunk_size bytes.
C8_OneChunkFetch ==
    [][(state # "Ready" /\ state' = "Ready" /\ TailDirectory)
          => /\ nFetch' = 1
             /\ written' = Range(_length - chunk_size, _length - 1)]_vars

\* C8 as amended: when __aenter__ returns on such an object after at most
\* one parse attempt, at most two ranged requests were issued (at least one
\* when the object has two bytes or more), no byte before offset
\* _length - chunk_size - 1 was fetched, and when chunk_size >= 2 divides
\* _length it is one request for exactly the last chunk_size bytes.
C8_TailFetch ==
    [][(state # "Ready" /\ state' = "Ready" /\ TailDirectory /\ parses <= 1)
          => /\ nFetch' <= 2
             /\ (_length >= 2 => nFetch' >= 1)
             /\ written' \subseteq Range(_length - chunk_size - 1, _length - 1)
             /\ (chunk_size >= 2 /\ _length % chunk_size = 0
                   => /\ nFetch' = 1
                      /\ written' = Range(_length - chunk_size,
                                          _length - 1))]_vars

\* C8 witness: the first parse attempt is about to succeed (ParseOk is its
\* only outcome) after two ranged requests that together fetched the last
\* chunk_size bytes.
C8_Witness ==
    /\ state = "Parsing"
    /\ DirectoryMirrored
    /\ TailDirectory
    /\ parses = 1
    /\ nFetch = 2
    /\ written = Range(_length - chunk_size, _length - 1)

\* C11 as claimed: whenever __aenter__ has ended with an exception (a failed
\* HEAD status, no range support, a transport error on a probe fetch), the
\* mirror file has been closed, without the caller having to call close().
C11_FailedIsClosed == state = "Failed" => closed

\* C12: every probe step downloads [start, _length - 1] for a start that is
\* a multiple of chunk_size, the starts still to come are strictly smaller
\* and end with 0; a step whose fetches succeed is followed by a parse
\* attempt and fetched nothing before its start; a failed attempt leads back
\* to the loop with a smaller start next (if any is left); and once
\* __aenter__ has returned, no probe step and no parse attempt is made.
C12_ProbeOrder ==
    [][/\ ProbeStep =>
             /\ Head(probe) % chunk_size = 0
             /\ Head(probe) < _length
             /\ probe[Len(probe)] = 0
             /\ \A i \in 1..(Len(probe) - 1) : probe[i] > probe[i + 1]
             /\ written' \ written \subseteq Range(Head(probe), _length - 1)
             /\ err' = "none" =>
                   /\ state' = "Parsing"
                   /\ probe' = probe
                   /\ Range(Head(probe), _length - 1)
                         \subseteq Covered(_left', _right') \cap written'
       /\ ParseBad =>
             /\ state' = "Probing"
             /\ probe' = Tail(probe)
             /\ probe' # <<>> => Head(probe') < Head(probe)
       /\ state \in {"Ready", "Closed"} =>
             /\ state' \in {"Ready", "Closed"}
             /\ parses' = parses
             /\ probe' = probe]_vars

\* C12 witness: __aenter__ has returned after a failed and a successful
\* attempt, with starts left that the loop never visited and exactly the
\* bytes from the second start on fetched.
C12_Witness ==
    /\ state = "Ready"
    /\ valid
    /\ parses = 2
    /\ Len(probe) >= 2
    /\ nFetch = 2
    /\ written = Range(Head(probe), _length - 1)

\* C13 as claimed: when the loop of _check_zip runs out of starts on an
\* object of at least one byte (no attempt has succeeded), every offset of
\* the object has been fetched into the mirror and recorded, and at least
\* one parse attempt was made.
C13_ExhaustedIsMirrored ==
    [][ProbeExhausted /\ _length >= 1
          => /\ Range(0, _length - 1) \subseteq written
             /\ Range(0, _length - 1) \subseteq Covered(_left, _right)
             /\ parses >= 1]_vars

\* C14: whenever __aenter__ returns the stream, the cursor is at position 0,
\* where it was before _check_zip ran, whatever probe steps were made and
\* whatever the parser sought and read in its attempts.
C14_CursorAtStart ==
    [][state # "Ready" /\ state' = "Ready" => pos' = 0]_vars

\* C14 witness: after a failed attempt, a second attempt in which the parser
\* has moved the cursor away from the saved position is about to succeed.
C14_Witness ==
    /\ state = "Parsing"
    /\ DirectoryMirrored
    /\ parses = 2
    /\ stayPos = 0
    /\ pos > 0

\* C15: for every read(size) with size >= 0 by the parser or the caller, at
\* every cursor position (past the end included), the window (s, e) passed
\* to _download has 0 <= s and e <= _length - 1, holds exactly
\* max(size, chunk_size) offsets whenever the object has that many, starts at
\* the cursor whenever pos + max(size, chunk_size) <= _length, and is what
\* the read records when its fetches succeed.
C15_WindowInObject ==
    [][\A size \in 0..MaxRead :
          LET win == ReadWindow(pos, size, _length, chunk_size)
              download_size == Max(size, chunk_size)
          IN  /\ state \in {"Ready", "Parsing"} =>
                    /\ 0 <= win[1]
                    /\ win[2] <= _length - 1
                    /\ _length >= download_size
                          => win[2] - win[1] + 1 = download_size
                    /\ pos + download_size <= _length => win[1] = pos
              /\ written' # written /\ (Read(size) \/ ParserRead(size)) =>
                    /\ written' \ written \subseteq Range(win[1], win[2])
                    /\ err' = "none" => Range(win[1], win[2])
                                           \subseteq Covered(_left', _right')]_vars

\* C15 witness: on an object shorter than chunk_size that no probe step
\* touched, a read has fetched the whole object.
C15_Witness ==
    /\ state = "Ready"
    /\ parses = 0
    /\ 1 <= _length /\ _length < chunk_size
    /\ written = Range(0, _length - 1)
    /\ err = "none"

\* C18: in every reachable state of a session whose fetches succeed or
\* fail arbitrarily, every offset of every recorded interval was written to
\* the mirror by a ranged fetch that ran to its end.
C18_RecordedIsFetched ==
    /\ Covered(_left, _right) \subseteq fetched
    /\ fetched \subseteq written

\* C18 witness: a fetch has failed after writing part of its range, those
\* offsets are in no interval, and an interval is recorded.
C18_Witness ==
    /\ failedSeen
    /\ written \ fetched # {}
    /\ _left # <<>>
    /\ Covered(_left, _right) # {}

\* C19 as claimed: for every object length, 0 included, and in every state
\* of a session, every recorded interval (s, e) has 0 <= s <= e <=
\* _length - 1, nothing was written outside the object, and every range a
\* read at the current position would request has 0 <= s <= e <=
\* _length - 1.
C19_RangesInObject ==
    /\ \A i \in 1..Len(_left) :
          0 <= _left[i] /\ _left[i] <= _right[i] /\ _right[i] <= _length - 1
    /\ written \subseteq Range(0, _length - 1)
    /\ state \in {"Ready", "Parsing"} =>
          \A size \in -1..MaxRead :
             LET win == ReadWindow(pos, size, _length, chunk_size)
                 gaps == DownloadGaps(_left, _right, win[1], win[2])
             IN  \A k \in 1..Len(gaps) :
                    /\ 0 <= gaps[k][1]
                    /\ gaps[k][1] <= gaps[k][2]
                    /\ gaps[k][2] <= _length - 1

====
